---- MODULE Spec2Model ----
(***************************************************************************)
(* Model of pakr-signals (src/src/lib.rs): the Sig enumeration and its     *)
(* i32 conversions, the SigSet wrapper around libc::sigset_t, Pid::send    *)
(* and the per-thread signal mask changed by disable_default_handler /     *)
(* enable_default_handler.                                                  *)
(*                                                                         *)
(* A sigset_t is modelled as the set of signal numbers whose bit is set.   *)
(* The operating system side (kill, pthread_sigmask, default dispositions) *)
(* is modelled after Linux/glibc at the call sites of the wrapper.         *)
(***************************************************************************)
EXTENDS Integers, Sequences, FiniteSets, TLC

VARIABLES
    conv,      \* last Sig <-> i32 conversion performed
    sigset,    \* the SigSet value under test: set of signal numbers (bits)
    ref,       \* reference set of named signals kept beside sigset
    setop,     \* last SigSet operation: name, arguments, prior value, result
    mask,      \* mask[t]: signal mask of thread t (kernel state)
    pending,   \* process-directed signals pending because every thread blocks them
    proc,      \* process state: running / stopped / terminated, with the signal
    maskop,    \* last mask or send operation: name, thread, set, OS return, result
    rt         \* tracker of a disable call awaiting the enable with the same set

vars == <<conv, sigset, ref, setop, mask, pending, proc, maskop, rt>>

(***************************************************************************)
(* Bounds of the model.                                                    *)
(***************************************************************************)
\* how many signals of PoolOrder the operations draw their arguments from
PoolSize == 4
\* how many signals of PoolOrder the signal lists are made of
NumListSigs == 2
\* longest signal list passed to add_many / remove_many / has_any / has_all / from
MaxLen == 2
\* number of threads of the process
NumThreads == 2
\* how many sets of MaskSetOrder the threads hand to the mask operations
NumMaskSets == 3
\* i32 codes -MaxCode .. MaxCode are fed to Sig::from
MaxCode == 70

(***************************************************************************)
(* libc signal numbers (Linux, generic architecture), as named by the      *)
(* enum discriminants.                                                     *)
(***************************************************************************)
SIGABRT == 6
SIGALRM == 14
SIGBUS == 7
SIGCHLD == 17
SIGCONT == 18
SIGFPE == 8
SIGHUP == 1
SIGILL == 4
SIGINT == 2
SIGKILL == 9
SIGPIPE == 13
SIGPOLL == 29
SIGPROF == 27
SIGPWR == 30
SIGQUIT == 3
SIGSEGV == 11
SIGSTKFLT == 16
SIGSTOP == 19
SIGSYS == 31
SIGTERM == 15
SIGTSTP == 20
SIGTTIN == 21
SIGTTOU == 22
SIGURG == 23
SIGUSR1 == 10
SIGUSR2 == 12
SIGVTALRM == 26
SIGWINCH == 28
SIGXCPU == 24
SIGXFSZ == 25

\* the variants of enum Sig
Sig ==
    {"ABRT", "ALRM", "BUS", "CHLD", "CONT", "FPE", "HUP", "ILL", "INT", "KILL",
     "PIPE", "POLL", "PROF", "PWR", "QUIT", "SEGV", "STKFLT", "STOP", "SYS",
     "TERM", "TSTP", "TTIN", "TTOU", "URG", "USR1", "USR2", "VTALRM", "WINCH",
     "XCPU", "XFSZ"}

\* tests::SIG_ALL
SIG_ALL ==
    <<"ABRT", "ALRM", "BUS", "CHLD", "CONT", "FPE", "HUP", "ILL", "INT", "KILL",
      "PIPE", "POLL", "PROF", "PWR", "QUIT", "SEGV", "STKFLT", "STOP", "SYS",
      "TERM", "TSTP", "TTIN", "TTOU", "URG", "USR1", "USR2", "VTALRM", "WINCH",
      "XCPU", "XFSZ">>

\* impl Into<i32> for Sig: `self as i32`, the discriminant of the variant
IntoI32(s) ==
    CASE s = "ABRT" -> SIGABRT
      [] s = "ALRM" -> SIGALRM
      [] s = "BUS" -> SIGBUS
      [] s = "CHLD" -> SIGCHLD
      [] s = "CONT" -> SIGCONT
      [] s = "FPE" -> SIGFPE
      [] s = "HUP" -> SIGHUP
      [] s = "ILL" -> SIGILL
      [] s = "INT" -> SIGINT
      [] s = "KILL" -> SIGKILL
      [] s = "PIPE" -> SIGPIPE
      [] s = "POLL" -> SIGPOLL
      [] s = "PROF" -> SIGPROF
      [] s = "PWR" -> SIGPWR
      [] s = "QUIT" -> SIGQUIT
      [] s = "SEGV" -> SIGSEGV
      [] s = "STKFLT" -> SIGSTKFLT
      [] s = "STOP" -> SIGSTOP
      [] s = "SYS" -> SIGSYS
      [] s = "TERM" -> SIGTERM
      [] s = "TSTP" -> SIGTSTP
      [] s = "TTIN" -> SIGTTIN
      [] s = "TTOU" -> SIGTTOU
      [] s = "URG" -> SIGURG
      [] s = "USR1" -> SIGUSR1
      [] s = "USR2" -> SIGUSR2
      [] s = "VTALRM" -> SIGVTALRM
      [] s = "WINCH" -> SIGWINCH
      [] s = "XCPU" -> SIGXCPU
      [] s = "XFSZ" -> SIGXFSZ

\* the outcome of Sig::from on a code with no arm: panic!("Invalid signal {}")
Panic == "PANIC: Invalid signal"

\* mutant of FromI32: the catch-all arm returns a variant instead of panicking
FromI32Lenient(sig) ==
    IF \E s \in Sig : IntoI32(s) = sig
    THEN CHOOSE s \in Sig : IntoI32(s) = sig
    ELSE "KILL"

\* mutant of FromI32: the arms of SIGUSR1 and SIGUSR2 are exchanged
FromI32Swapped(sig) ==
    CASE sig = SIGUSR1 -> "USR2"
      [] sig = SIGUSR2 -> "USR1"
      [] \E s \in Sig : IntoI32(s) = sig -> CHOOSE s \in Sig : IntoI32(s) = sig
      [] OTHER -> Panic

\* impl From<i32> for Sig: the match, arm by arm, first matching arm wins
FromI32(sig) ==
    CASE sig = SIGABRT -> "ABRT"
      [] sig = SIGALRM -> "ALRM"
      [] sig = SIGBUS -> "BUS"
      [] sig = SIGCHLD -> "CHLD"
      [] sig = SIGCONT -> "CONT"
      [] sig = SIGFPE -> "FPE"
      [] sig = SIGHUP -> "HUP"
      [] sig = SIGILL -> "ILL"
      [] sig = SIGINT -> "INT"
      [] sig = SIGKILL -> "KILL"
      [] sig = SIGPIPE -> "PIPE"
      [] sig = SIGPOLL -> "POLL"
      [] sig = SIGPROF -> "PROF"
      [] sig = SIGPWR -> "PWR"
      [] sig = SIGQUIT -> "QUIT"
      [] sig = SIGSEGV -> "SEGV"
      [] sig = SIGSTKFLT -> "STKFLT"
      [] sig = SIGSTOP -> "STOP"
      [] sig = SIGSYS -> "SYS"
      [] sig = SIGTERM -> "TERM"
      [] sig = SIGTSTP -> "TSTP"
      [] sig = SIGTTIN -> "TTIN"
      [] sig = SIGTTOU -> "TTOU"
      [] sig = SIGURG -> "URG"
      [] sig = SIGUSR1 -> "USR1"
      [] sig = SIGUSR2 -> "USR2"
      [] sig = SIGVTALRM -> "VTALRM"
      [] sig = SIGWINCH -> "WINCH"
      [] sig = SIGXCPU -> "XCPU"
      [] sig = SIGXFSZ -> "XFSZ"
      [] OTHER -> Panic

(***************************************************************************)
(* libc::sigset_t and the libc calls of SigSet (glibc on Linux): a set is  *)
(* the set of signal numbers whose bit is set.                             *)
(***************************************************************************)
\* the signal numbers a sigset_t holds a bit for: 1 .. _NSIG-1
SigRange == 1..64

\* signals glibc reserves for itself (SIGCANCEL, SIGSETXID)
InternalSigs == {32, 33}

\* sigemptyset(set)
Sigemptyset == {}

\* sigfillset(set): every signal of the OS range but the internal ones
Sigfillset == SigRange \ InternalSigs

\* sigaddset(set, signo): EINVAL (set unchanged) for a number out of range
Sigaddset(set, signo) ==
    IF signo \in SigRange \ InternalSigs THEN set \cup {signo} ELSE set

\* sigdelset(set, signo)
Sigdelset(set, signo) ==
    IF signo \in SigRange \ InternalSigs THEN set \ {signo} ELSE set

\* sigismember(set, signo): 1, 0, or -1 for a number out of range
Sigismember(set, signo) ==
    IF signo \notin SigRange THEN -1
    ELSE IF signo \in set THEN 1 ELSE 0

(***************************************************************************)
(* impl SigSet: each method as a function of the value of the set.         *)
(***************************************************************************)
\* SigSet::new
new == Sigemptyset

\* SigSet::clear
clear(set) == Sigemptyset

\* SigSet::fill
fill(set) == Sigfillset

\* mutant of add: the bit index is taken one too low
addOffByOne(set, sig) == Sigaddset(set, IntoI32(sig) - 1)

\* SigSet::add
add(set, sig) == Sigaddset(set, IntoI32(sig))

RECURSIVE add_many(_, _)
\* SigSet::add_many: for &sig in sigs { self.add(sig) }
add_many(set, sigs) ==
    IF sigs = <<>> THEN set
    ELSE add_many(add(set, Head(sigs)), Tail(sigs))

\* SigSet::remove
remove(set, sig) == Sigdelset(set, IntoI32(sig))

RECURSIVE remove_many(_, _)
\* SigSet::remove_many: for &sig in sigs { self.remove(sig) }
remove_many(set, sigs) ==
    IF sigs = <<>> THEN set
    ELSE remove_many(remove(set, Head(sigs)), Tail(sigs))

\* SigSet::has: sigismember(...) matched against 1
has(set, sig) == Sigismember(set, IntoI32(sig)) = 1

RECURSIVE has_any(_, _)
\* SigSet::has_any: return true at the first member, false after the loop
has_any(set, sigs) ==
    IF sigs = <<>> THEN FALSE
    ELSE IF has(set, Head(sigs)) THEN TRUE
    ELSE has_any(set, Tail(sigs))

\* mutant of has_all: the loop stops after the first element
has_allFirstOnly(set, sigs) ==
    IF sigs = <<>> THEN TRUE ELSE has(set, Head(sigs))

RECURSIVE has_all(_, _)
\* SigSet::has_all: return false at the first non-member, true after the loop
has_all(set, sigs) ==
    IF sigs = <<>> THEN TRUE
    ELSE IF ~has(set, Head(sigs)) THEN FALSE
    ELSE has_all(set, Tail(sigs))

\* SigSet::from: new() then add_many(sigs)
from(sigs) == add_many(new, sigs)

(***************************************************************************)
(* Arguments the operations are called with.                               *)
(***************************************************************************)
\* the order in which signals enter the argument pool as PoolSize grows
PoolOrder ==
    <<"INT", "KILL", "USR1", "STOP", "CHLD", "QUIT", "TERM", "CONT", "USR2",
      "HUP", "TSTP", "URG">>

Pool == {PoolOrder[i] : i \in 1..PoolSize}

ListPool == {PoolOrder[i] : i \in 1..NumListSigs}

\* signal lists: every list over ListPool up to MaxLen (repeats allowed)
Lists == UNION {[1..n -> ListPool] : n \in 0..MaxLen}

\* the lists the queries are given: also the list of all named signals, as in
\* the tests
QueryLists == Lists \cup {SIG_ALL}

\* the elements of a list
Elems(sigs) == {sigs[i] : i \in 1..Len(sigs)}

NoSetOp == [op |-> "init", sigs |-> <<>>, pre |-> {}, res |-> FALSE]
NoConv == [op |-> "init", sig |-> "HUP", code |-> 0, out |-> "HUP"]

(***************************************************************************)
(* Operations on one SigSet value (specification SpecSet).                 *)
(***************************************************************************)
SetFrame == UNCHANGED <<conv, mask, pending, proc, maskop, rt>>

New ==
    /\ sigset' = new
    /\ ref' = {}
    /\ setop' = [op |-> "new", sigs |-> <<>>, pre |-> sigset, res |-> FALSE]
    /\ SetFrame

Clear ==
    /\ sigset' = clear(sigset)
    /\ ref' = {}
    /\ setop' = [op |-> "clear", sigs |-> <<>>, pre |-> sigset, res |-> FALSE]
    /\ SetFrame

Fill ==
    /\ sigset' = fill(sigset)
    /\ ref' = Sig
    /\ setop' = [op |-> "fill", sigs |-> <<>>, pre |-> sigset, res |-> FALSE]
    /\ SetFrame

Add(sig) ==
    /\ sigset' = add(sigset, sig)
    /\ ref' = ref \cup {sig}
    /\ setop' = [op |-> "add", sigs |-> <<sig>>, pre |-> sigset, res |-> FALSE]
    /\ SetFrame

AddMany(sigs) ==
    /\ sigset' = add_many(sigset, sigs)
    /\ ref' = ref \cup Elems(sigs)
    /\ setop' = [op |-> "add_many", sigs |-> sigs, pre |-> sigset, res |-> FALSE]
    /\ SetFrame

Remove(sig) ==
    /\ sigset' = remove(sigset, sig)
    /\ ref' = ref \ {sig}
    /\ setop' = [op |-> "remove", sigs |-> <<sig>>, pre |-> sigset, res |-> FALSE]
    /\ SetFrame

RemoveMany(sigs) ==
    /\ sigset' = remove_many(sigset, sigs)
    /\ ref' = ref \ Elems(sigs)
    /\ setop' = [op |-> "remove_many", sigs |-> sigs, pre |-> sigset, res |-> FALSE]
    /\ SetFrame

From(sigs) ==
    /\ sigset' = from(sigs)
    /\ ref' = Elems(sigs)
    /\ setop' = [op |-> "from", sigs |-> sigs, pre |-> sigset, res |-> FALSE]
    /\ SetFrame

Has(sig) ==
    /\ setop' = [op |-> "has", sigs |-> <<sig>>, pre |-> sigset,
                 res |-> has(sigset, sig)]
    /\ UNCHANGED <<sigset, ref>>
    /\ SetFrame

HasAny(sigs) ==
    /\ setop' = [op |-> "has_any", sigs |-> sigs, pre |-> sigset,
                 res |-> has_any(sigset, sigs)]
    /\ UNCHANGED <<sigset, ref>>
    /\ SetFrame

HasAll(sigs) ==
    /\ setop' = [op |-> "has_all", sigs |-> sigs, pre |-> sigset,
                 res |-> has_all(sigset, sigs)]
    /\ UNCHANGED <<sigset, ref>>
    /\ SetFrame

(***************************************************************************)
(* Conversions between Sig and i32 (specification SpecConv).               *)
(***************************************************************************)
ConvFrame == UNCHANGED <<sigset, ref, setop, mask, pending, proc, maskop, rt>>

\* the i32 codes given to Sig::from: a range around zero and the i32 extremes
Codes == (-MaxCode..MaxCode) \cup {-2147483647 - 1, 2147483647}

\* sig.into(): Sig -> i32
ConvInto(sig) ==
    /\ conv' = [op |-> "into", sig |-> sig, code |-> IntoI32(sig), out |-> sig]
    /\ ConvFrame

\* Sig::from(code): i32 -> Sig, or the panic
ConvFrom(code) ==
    /\ conv' = [op |-> "from", sig |-> "HUP", code |-> code, out |-> FromI32(code)]
    /\ ConvFrame

\* Sig::from(sig.into())
ConvRoundTrip(sig) ==
    /\ conv' = [op |-> "roundtrip", sig |-> sig, code |-> IntoI32(sig),
                out |-> FromI32(IntoI32(sig))]
    /\ ConvFrame

(***************************************************************************)
(* The process, its threads and the kernel side of kill / pthread_sigmask. *)
(***************************************************************************)
Threads == 1..NumThreads

\* signals the kernel never lets a thread block
Unblockable == {SIGKILL, SIGSTOP}

\* default disposition of a signal (signal(7)); core dumps count as termination
DefaultAction(signo) ==
    CASE signo \in {SIGCHLD, SIGURG, SIGWINCH} -> "ign"
      [] signo = SIGCONT -> "cont"
      [] signo \in {SIGSTOP, SIGTSTP, SIGTTIN, SIGTTOU} -> "stop"
      [] OTHER -> "term"

Running == [state |-> "running", sig |-> 0]

\* the process after the default disposition of signo has been applied
Dispose(p, signo) ==
    CASE DefaultAction(signo) = "term" -> [state |-> "terminated", sig |-> signo]
      [] DefaultAction(signo) = "stop" -> [state |-> "stopped", sig |-> signo]
      [] OTHER -> p

\* mutant of KillOwn: the signal is delivered whatever the masks say
KillOwnIgnoringMask(m, pend, p, signo) ==
    [pending |-> pend, proc |-> Dispose(p, signo)]

\* kill(getpid(), signo): a process-directed signal is delivered to a thread
\* that does not block it; when every thread blocks it, it stays pending
KillOwn(m, pend, p, signo) ==
    IF \E u \in Threads : signo \notin m[u]
    THEN [pending |-> pend, proc |-> Dispose(p, signo)]
    ELSE [pending |-> pend \cup {signo}, proc |-> p]

\* mutant of PthreadSigmask: SIG_UNBLOCK empties the mask
PthreadSigmaskUnblockAll(how, set, old) ==
    IF how = "SIG_BLOCK" THEN old \cup (set \ (Unblockable \cup InternalSigs))
    ELSE {}

\* mutant of PthreadSigmask: SIG_BLOCK replaces the mask instead of adding to it
PthreadSigmaskSetmask(how, set, old) ==
    IF how = "SIG_BLOCK" THEN set \ (Unblockable \cup InternalSigs)
    ELSE old \ set

\* mutant of PthreadSigmask: KILL and STOP are not filtered out
PthreadSigmaskNoFilter(how, set, old) ==
    IF how = "SIG_BLOCK" THEN old \cup set ELSE old \ set

\* pthread_sigmask(how, set, NULL) when the OS applies it: the new mask of the
\* calling thread
PthreadSigmask(how, set, old) ==
    IF how = "SIG_BLOCK" THEN old \cup (set \ (Unblockable \cup InternalSigs))
    ELSE old \ set

\* what pthread_sigmask returns: 0, or an error number (EFAULT, EINVAL); it
\* never returns -1 and does not set errno
MaskReturns == {0, 22}

\* what kill returns: 0, or -1 with errno set
KillReturns == {0, -1}

\* pending signals the calling thread no longer blocks are delivered as the mask
\* change returns, lowest number first, until one stops or ends the process
Unleash(newmask, pend, p) ==
    LET due == pend \ newmask
        decisive == {d \in due : DefaultAction(d) \in {"term", "stop"}}
    IN  IF decisive = {}
        THEN [pending |-> pend \ due, proc |-> p]
        ELSE LET d == CHOOSE x \in decisive : \A y \in decisive : x <= y
             IN  [pending |-> pend \ {x \in due : x <= d}, proc |-> Dispose(p, d)]

\* mutant of set_procmask: every return value is reported as Ok
set_procmaskAlwaysOk(ret) == "Ok"

\* SigSet::set_procmask: the io::Result for the value pthread_sigmask returned
set_procmask(ret) == IF ret = -1 THEN "Err" ELSE "Ok"

\* Pid::send: the io::Result for the value kill returned
send(ret) == IF ret = -1 THEN "Err" ELSE "Ok"

\* the sets the threads hand to the mask operations, in the order in which they
\* enter the model as NumMaskSets grows: the set of the crate's example first
MaskSetOrder ==
    << from(<<"INT">>),
       fill(new),
       from(<<"USR1", "KILL", "STOP">>),
       from(<<"KILL", "STOP">>),
       from(<<"INT", "USR1">>),
       from(<<"QUIT">>) >>

MaskSets == {MaskSetOrder[i] : i \in 1..NumMaskSets}

NoMaskOp ==
    [op |-> "init", t |-> 0, set |-> {}, before |-> {}, sig |-> 0,
     target |-> "none", ret |-> 0, res |-> "Ok"]

NoRT == [stage |-> "none", t |-> 0, set |-> {}, before |-> {}, ret1 |-> 0, ret2 |-> 0]

(***************************************************************************)
(* What the calls do to the kernel state of the process.                   *)
(***************************************************************************)
\* mutant of DisableStep: the mask of the whole process is changed, as
\* sigprocmask is often taken to do
DisableStepProcessWide(t, set, ret) ==
    /\ proc.state = "running"
    /\ mask' = IF ret = 0
               THEN [u \in Threads |-> PthreadSigmask("SIG_BLOCK", set, mask[u])]
               ELSE mask
    /\ UNCHANGED <<pending, proc>>

\* thread t: set.disable_default_handler(), pthread_sigmask returning ret
DisableStep(t, set, ret) ==
    /\ proc.state = "running"
    /\ mask' = IF ret = 0
               THEN [mask EXCEPT ![t] = PthreadSigmask("SIG_BLOCK", set, mask[t])]
               ELSE mask
    /\ UNCHANGED <<pending, proc>>

\* thread t: set.enable_default_handler(), pthread_sigmask returning ret
EnableStep(t, set, ret) ==
    /\ proc.state = "running"
    /\ LET newmask == IF ret = 0
                      THEN PthreadSigmask("SIG_UNBLOCK", set, mask[t])
                      ELSE mask[t]
           after == Unleash(newmask, pending, proc)
       IN  /\ mask' = [mask EXCEPT ![t] = newmask]
           /\ pending' = after.pending
           /\ proc' = after.proc

\* Pid::own()?.send(sig), also written sig.send_to(Pid::own()?)
SendOwnStep(sig) ==
    /\ proc.state = "running"
    /\ LET after == KillOwn(mask, pending, proc, IntoI32(sig))
       IN  /\ pending' = after.pending
           /\ proc' = after.proc
    /\ UNCHANGED mask

(***************************************************************************)
(* Operations of the threads (specification Spec): each records itself in  *)
(* maskop.                                                                 *)
(***************************************************************************)
MaskFrame == UNCHANGED <<conv, sigset, ref, setop>>

DisableDefaultHandler(t, set) ==
    /\ \E ret \in MaskReturns :
         /\ DisableStep(t, set, ret)
         /\ maskop' = [op |-> "disable", t |-> t, set |-> set, before |-> mask[t],
                       sig |-> 0, target |-> "none", ret |-> ret,
                       res |-> set_procmask(ret)]
    /\ UNCHANGED rt
    /\ MaskFrame

EnableDefaultHandler(t, set) ==
    /\ \E ret \in MaskReturns :
         /\ EnableStep(t, set, ret)
         /\ maskop' = [op |-> "enable", t |-> t, set |-> set, before |-> mask[t],
                       sig |-> 0, target |-> "none", ret |-> ret,
                       res |-> set_procmask(ret)]
    /\ UNCHANGED rt
    /\ MaskFrame

SendOwn(t, sig) ==
    /\ SendOwnStep(sig)
    /\ maskop' = [op |-> "send", t |-> t, set |-> {}, before |-> mask[t],
                  sig |-> IntoI32(sig), target |-> "own", ret |-> 0, res |-> send(0)]
    /\ UNCHANGED rt
    /\ MaskFrame

\* thread t: Pid::parent()?.send(sig); the parent may refuse (EPERM) or be gone
SendParent(t, sig) ==
    /\ proc.state = "running"
    /\ \E ret \in KillReturns :
         maskop' = [op |-> "send", t |-> t, set |-> {}, before |-> mask[t],
                    sig |-> IntoI32(sig), target |-> "parent", ret |-> ret,
                    res |-> send(ret)]
    /\ UNCHANGED <<mask, pending, proc, rt>>
    /\ MaskFrame

(***************************************************************************)
(* The same operations (specification SpecRT), recording in rt a disable   *)
(* call of a thread until that thread's next mask operation.               *)
(***************************************************************************)
\* a disable call: it becomes the tracked call, or the tracked call of another
\* thread stays tracked
TrackedDisable(t, set) ==
    /\ \E ret \in MaskReturns :
         /\ DisableStep(t, set, ret)
         /\ \/ rt' = [stage |-> "armed", t |-> t, set |-> set, before |-> mask[t],
                      ret1 |-> ret, ret2 |-> 0]
            \/ /\ rt.stage # "none"
               /\ rt.t # t
               /\ rt' = rt
    /\ UNCHANGED maskop
    /\ MaskFrame

\* an enable call: with the set of the tracked disable call of the same thread it
\* completes the pair; any other enable call of that thread ends the tracking
TrackedEnable(t, set) ==
    /\ \E ret \in MaskReturns :
         /\ EnableStep(t, set, ret)
         /\ rt' = IF rt.stage = "armed" /\ rt.t = t /\ rt.set = set
                  THEN [rt EXCEPT !.stage = "done", !.ret2 = ret]
                  ELSE IF rt.t = t THEN NoRT ELSE rt
    /\ UNCHANGED maskop
    /\ MaskFrame

TrackedSendOwn(sig) ==
    /\ SendOwnStep(sig)
    /\ UNCHANGED <<maskop, rt>>
    /\ MaskFrame

(***************************************************************************)
(* Specifications.                                                         *)
(***************************************************************************)
Init ==
    /\ conv = NoConv
    /\ sigset = new
    /\ ref = {}
    /\ setop = NoSetOp
    /\ mask = [t \in Threads |-> {}]
    /\ pending = {}
    /\ proc = Running
    /\ maskop = NoMaskOp
    /\ rt = NoRT

Next ==
    \/ \E t \in Threads, set \in MaskSets : DisableDefaultHandler(t, set)
    \/ \E t \in Threads, set \in MaskSets : EnableDefaultHandler(t, set)
    \/ \E t \in Threads, sig \in Pool : SendOwn(t, sig)
    \/ \E t \in Threads, sig \in Pool : SendParent(t, sig)

\* the threads of one process changing their masks and sending signals
Spec == Init /\ [][Next]_vars

NextRT ==
    \/ \E t \in Threads, set \in MaskSets : TrackedDisable(t, set)
    \/ \E t \in Threads, set \in MaskSets : TrackedEnable(t, set)
    \/ \E sig \in Pool : TrackedSendOwn(sig)

\* the same threads, with a disable call followed up to the matching enable call
SpecRT == Init /\ [][NextRT]_vars

NextSet ==
    \/ New
    \/ Clear
    \/ Fill
    \/ \E sig \in Pool : Add(sig)
    \/ \E sigs \in Lists : AddMany(sigs)
    \/ \E sig \in Pool : Remove(sig)
    \/ \E sigs \in Lists : RemoveMany(sigs)
    \/ \E sigs \in Lists : From(sigs)
    \/ \E sig \in Sig : Has(sig)
    \/ \E sigs \in QueryLists : HasAny(sigs)
    \/ \E sigs \in QueryLists : HasAll(sigs)

\* one SigSet value under any sequence of its operations
SpecSet == Init /\ [][NextSet]_vars

NextConv ==
    \/ \E sig \in Sig : ConvInto(sig)
    \/ \E code \in Codes : ConvFrom(code)
    \/ \E sig \in Sig : ConvRoundTrip(sig)

\* conversions between Sig and i32
SpecConv == Init /\ [][NextConv]_vars

(***************************************************************************)
(* Properties.                                                             *)
(***************************************************************************)
IsMaskOp == maskop.op \in {"disable", "enable"}

KillStop == {IntoI32("KILL"), IntoI32("STOP")}

\* C1 as stated, a successful call being one whose mask change the OS carried
\* out: disable leaves the mask equal to M union S, enable equal to M minus S
C1_Original ==
    /\ (maskop.op = "disable" /\ maskop.ret = 0)
          => mask[maskop.t] = maskop.before \cup maskop.set
    /\ (maskop.op = "enable" /\ maskop.ret = 0)
          => mask[maskop.t] = maskop.before \ maskop.set

\* C1 (amended): a disable call whose mask change the OS carries out leaves the
\* mask of the calling thread equal to M union (S minus {KILL, STOP}), an enable
\* call equal to M minus S; whatever the OS answers, the status of every signal
\* that is not in S is the same as before
C1_MaskChange ==
    /\ (maskop.op = "disable" /\ maskop.ret = 0)
          => mask[maskop.t] = maskop.before \cup (maskop.set \ KillStop)
    /\ (maskop.op = "enable" /\ maskop.ret = 0)
          => mask[maskop.t] = maskop.before \ maskop.set
    /\ IsMaskOp
          => \A n \in SigRange \ maskop.set :
                (n \in mask[maskop.t]) <=> (n \in maskop.before)

\* a disable call of a set holding KILL and STOP on a thread that already blocks
\* a signal outside the set, carried out by the OS and adding a signal
C1_Witness ==
    /\ maskop.op = "disable"
    /\ maskop.ret = 0
    /\ KillStop \subseteq maskop.set
    /\ maskop.before \ maskop.set # {}
    /\ mask[maskop.t] # maskop.before

\* C2 as stated: with INT blocked by the calling thread, a send of INT to the own
\* process does not end the process
C2_Original ==
    (/\ maskop.op = "send"
     /\ maskop.target = "own"
     /\ maskop.sig = IntoI32("INT")
     /\ IntoI32("INT") \in mask[maskop.t])
        => proc.state # "terminated"

AllBlock(signo) == \A u \in Threads : signo \in mask[u]

\* C2 (amended): for as long as INT is in the mask of every thread of the
\* process, the process is not terminated by INT; each send of INT to the own
\* process returns Ok and leaves INT pending
C2_AllThreadsBlock ==
    AllBlock(IntoI32("INT"))
        => /\ ~(proc.state = "terminated" /\ proc.sig = IntoI32("INT"))
           /\ (maskop.op = "send" /\ maskop.target = "own"
                  /\ maskop.sig = IntoI32("INT"))
                 => /\ proc = Running
                    /\ maskop.res = "Ok"
                    /\ IntoI32("INT") \in pending

\* INT sent to the own process while every thread blocks it
C2_Witness ==
    /\ maskop.op = "send"
    /\ maskop.target = "own"
    /\ maskop.sig = IntoI32("INT")
    /\ AllBlock(IntoI32("INT"))
    /\ proc.state = "running"
    /\ IntoI32("INT") \in pending

\* C3 as stated: after disable and then enable with the same set, both carried
\* out by the OS, the mask of the thread is the mask it had before the disable
C3_Original ==
    (rt.stage = "done" /\ rt.ret1 = 0 /\ rt.ret2 = 0)
        => mask[rt.t] = rt.before

\* C3 (amended): disable then enable with the same set S, on a thread whose mask
\* was M, leaves the mask M minus S when the OS carries out the enable call; that
\* is M exactly when no member of S was blocked before. When the OS rejects the
\* enable call the mask stays what the disable call left
C3_RoundTrip ==
    rt.stage = "done"
        => /\ rt.ret2 = 0 => /\ mask[rt.t] = rt.before \ rt.set
                             /\ (mask[rt.t] = rt.before) <=> (rt.before \cap rt.set = {})
           /\ (rt.ret2 # 0 /\ rt.ret1 = 0)
                 => mask[rt.t] = rt.before \cup (rt.set \ KillStop)
           /\ (rt.ret2 # 0 /\ rt.ret1 # 0) => mask[rt.t] = rt.before

\* a completed disable/enable pair that blocked something new and reverted to a
\* non-empty prior mask
C3_Witness ==
    /\ rt.stage = "done"
    /\ rt.ret1 = 0
    /\ rt.ret2 = 0
    /\ rt.before # {}
    /\ rt.set \ KillStop # {}
    /\ rt.before \cap rt.set = {}
    /\ mask[rt.t] = rt.before

\* C4: when pthread_sigmask reports failure, disable_default_handler and
\* enable_default_handler return Err
C4_ErrorPropagated ==
    (IsMaskOp /\ maskop.ret # 0) => maskop.res = "Err"

\* C5: a disable or enable call leaves the mask of every thread other than the
\* calling one as it was
C5_OtherThreadsUntouched ==
    [][maskop'.op \in {"disable", "enable"}
          => \A u \in Threads \ {maskop'.t} : mask'[u] = mask[u]]_vars

\* a call changed the mask of its thread while another thread holds a different,
\* non-empty mask
C5_Witness ==
    /\ IsMaskOp
    /\ maskop.ret = 0
    /\ mask[maskop.t] # maskop.before
    /\ \E u \in Threads \ {maskop.t} : mask[u] # {} /\ mask[u] # mask[maskop.t]

\* C6: has(s) equals membership in the reference set for every named signal; a
\* new set has no member; add(s) makes s a member, remove(s) a non-member, both
\* leave every other signal alone, and adding a member changes nothing
C6_Refinement ==
    /\ \A s \in Sig : has(sigset, s) <=> (s \in ref)
    /\ setop.op = "new" => \A s \in Sig : ~has(sigset, s)
    /\ setop.op = "add" =>
          /\ has(sigset, setop.sigs[1])
          /\ \A s \in Sig \ {setop.sigs[1]} : has(sigset, s) <=> has(setop.pre, s)
          /\ has(setop.pre, setop.sigs[1]) => sigset = setop.pre
    /\ setop.op = "remove" =>
          /\ ~has(sigset, setop.sigs[1])
          /\ \A s \in Sig \ {setop.sigs[1]} : has(sigset, s) <=> has(setop.pre, s)

\* a signal added to a set that held another signal and not this one
C6_Witness ==
    /\ setop.op = "add"
    /\ setop.pre # {}
    /\ ~has(setop.pre, setop.sigs[1])
    /\ has(sigset, setop.sigs[1])
    /\ ref # Sig

\* C7: has_any(L) is true iff some element of L is a member, has_all(L) iff every
\* element is; has_any([]) is false and has_all([]) true; the set is unchanged
C7_AnyAll ==
    /\ setop.op = "has_any" =>
          /\ setop.res <=> (\E i \in 1..Len(setop.sigs) : setop.sigs[i] \in ref)
          /\ setop.sigs = <<>> => ~setop.res
          /\ sigset = setop.pre
    /\ setop.op = "has_all" =>
          /\ setop.res <=> (\A i \in 1..Len(setop.sigs) : setop.sigs[i] \in ref)
          /\ setop.sigs = <<>> => setop.res
          /\ sigset = setop.pre

\* has_all on a list whose first element is a member and a later one is not
C7_Witness ==
    /\ setop.op = "has_all"
    /\ Len(setop.sigs) >= 2
    /\ setop.sigs[1] \in ref
    /\ ~setop.res

\* C8: Sig::from(s.into()) is s for each of the 30 named signals, and no two
\* named signals have the same code
C8_RoundTrip ==
    /\ conv.op = "roundtrip" => conv.out = conv.sig
    /\ Cardinality(Sig) = 30
    /\ \A s1, s2 \in Sig : IntoI32(s1) = IntoI32(s2) => s1 = s2

\* the round trip made for the last variant of the enum
C8_Witness ==
    /\ conv.op = "roundtrip"
    /\ conv.sig = "XFSZ"
    /\ conv.code = 25
    /\ conv.out = "XFSZ"

NamedCodes == {IntoI32(s) : s \in Sig}

\* C9: Sig::from on a code that is the code of no named signal panics and
\* returns no named signal
C9_InvalidPanics ==
    (conv.op = "from" /\ conv.code \notin NamedCodes)
        => /\ conv.out = Panic
           /\ conv.out \notin Sig

\* Sig::from(5): SIGTRAP, a signal of the OS the enum does not name
C9_Witness ==
    /\ conv.op = "from"
    /\ conv.code = 5
    /\ conv.out = Panic

====
